---- MODULE Spec2Model ----
(***************************************************************************)
(* eu-vat-rates-data: the accessor API of src/index.ts over the bundled    *)
(* dataset, modelled on a JavaScript heap.                                 *)
(*                                                                         *)
(* The heap is the loaded dataset overlaid with the objects written since  *)
(* (the variable `written`); `heap` below is that overlay.                 *)
(*                                                                         *)
(* The accessors are one-line property reads, so what decides their        *)
(* behaviour is the semantics of the property read: dataset.rates is a     *)
(* plain object (it comes from a JSON import), it inherits from            *)
(* Object.prototype, `rates[code]` walks the prototype chain while         *)
(* hasOwnProperty does not, and getAllRates hands out the table itself,    *)
(* not a copy.  The heap below keeps exactly that: objects with own        *)
(* properties and a prototype link, and values that are primitives or      *)
(* references.                                                             *)
(*                                                                         *)
(* Numbers are percentages in tenths of a percent (25.5 % is 255).         *)
(***************************************************************************)
EXTENDS Integers, Sequences, FiniteSets, TLC

VARIABLES
    snapshot,     \* the embedded resource the build bundled
    written,      \* the objects changed since the module loaded: id -> object
    dataVersion,  \* the exported const dataVersion
    last,         \* the consumer's latest call: [op, arg, res]
    memo,         \* one earlier call the consumer has kept the result of
    writes        \* number of writes the consumer made through a returned table

vars == <<snapshot, written, dataVersion, last, memo, writes>>

----------------------------------------------------------------------------
(* Bounds *)

\* Writes a consumer makes through the table getAllRates returned.
MaxWrites == 1

----------------------------------------------------------------------------
(* JavaScript values *)

Undefined == [t |-> "undefined", n |-> 0, s |-> ""]
Null      == [t |-> "null", n |-> 0, s |-> ""]
Num(k)    == [t |-> "number", n |-> k, s |-> ""]
Str(x)    == [t |-> "string", n |-> 0, s |-> x]
Bool(b)   == [t |-> "boolean", n |-> IF b THEN 1 ELSE 0, s |-> ""]
Ref(o)    == [t |-> "object", n |-> 0, s |-> o]
\* An accessor property (getter), as opposed to a data property.
Getter(x) == [t |-> "getter", n |-> 0, s |-> x]

\* Completion of a call: a normal return, or a thrown TypeError.
Return(v) == [status |-> "return", value |-> v]
Throw     == [status |-> "throw", value |-> Str("TypeError")]

----------------------------------------------------------------------------
(* The closed jurisdiction set and the inputs of the accessors *)

CountryCode ==
    { "AT", "BE", "BG", "CY", "CZ", "DE", "DK", "EE",
      "ES", "FI", "FR", "GB", "GR", "HR", "HU", "IE",
      "IT", "LT", "LU", "LV", "MT", "NL", "PL", "PT",
      "RO", "SE", "SI", "SK" }

\* Strings a caller may pass that are no CountryCode: an uncovered country,
\* a wrong-case code, the upstream code of Greece, the empty string, and
\* names of properties every object inherits.
OtherInputs == { "US", "gr", "EL", "", "toString", "constructor", "__proto__" }

Inputs == CountryCode \cup OtherInputs

----------------------------------------------------------------------------
(* Object ids *)

DatasetObj   == "dataset"
RatesObj     == "dataset.rates"
ObjectProto  == "Object.prototype"
FunctionProto == "Function.prototype"
ArrayProto   == "Array.prototype"
RecObj(c)    == "rates." \o c
ReducedObj(c) == "reduced." \o c
\* The built-in functions reachable through the inputs.
BuiltinFns   == { "toString", "constructor" }
FnObj(f)     == "function." \o f

----------------------------------------------------------------------------
(* The embedded resource: data/eu-vat-rates-data.json *)

\* Standard rates that occur (19 % and 25.5 %).
StdRates == { 190, 255 }

\* The snapshots the bundled file may hold: two releases of the data, which
\* differ in their version, their rates and their reduced rates (none at
\* all in the second).
Snapshots ==
    { [version |-> "2026-02-25", standard |-> 190, reduced |-> <<100, 135>>],
      [version |-> "2026-03-04", standard |-> 255, reduced |-> <<>>] }

\* An array object holding the sequence q.
ArrayObject(q) ==
    [proto |-> ArrayProto,
     own   |-> [k \in {"length"} \cup {ToString(i - 1) : i \in 1..Len(q)} |->
                  IF k = "length" THEN Num(Len(q))
                  ELSE Num(q[CHOOSE i \in 1..Len(q) : ToString(i - 1) = k])]]

\* One VatRate record of the file.
VatRate(c, snap) ==
    [proto |-> ObjectProto,
     own   |-> [country       |-> Str("name of " \o c),
                currency      |-> Str("EUR"),
                standard      |-> Num(snap.standard),
                reduced       |-> Ref(ReducedObj(c)),
                super_reduced |-> Null,
                parking       |-> Null]]

\* The heap after `import data from '../data/eu-vat-rates-data.json'`:
\* the file's objects are plain objects inheriting from Object.prototype, its
\* arrays inherit from Array.prototype, and the built-ins are there already.
LoadDataset(snap) ==
    (DatasetObj :>
         [proto |-> ObjectProto,
          own   |-> [version |-> Str(snap.version),
                     source  |-> Str("European Commission TEDB"),
                     url     |-> Str("https://taxation-customs.ec.europa.eu/tedb/vatRates.html"),
                     rates   |-> Ref(RatesObj)]])
    @@ (RatesObj :>
         [proto |-> ObjectProto,
          own   |-> [c \in CountryCode |-> Ref(RecObj(c))]])
    @@ [o \in {RecObj(c) : c \in CountryCode} |->
          VatRate(CHOOSE c \in CountryCode : RecObj(c) = o, snap)]
    @@ [o \in {ReducedObj(c) : c \in CountryCode} |-> ArrayObject(snap.reduced)]
    @@ (ObjectProto :>
         [proto |-> "",
          own   |-> [k \in BuiltinFns \cup {"__proto__"} |->
                       IF k = "__proto__" THEN Getter("__proto__")
                       ELSE Ref(FnObj(k))]])
    @@ [o \in {FunctionProto, ArrayProto} |->
          [proto |-> ObjectProto, own |-> [k \in {} |-> Undefined]]]
    @@ [o \in {FnObj(f) : f \in BuiltinFns} |->
          [proto |-> FunctionProto, own |-> [k \in {} |-> Undefined]]]

----------------------------------------------------------------------------
(* The heap *)

\* The loaded heap of every snapshot, tabulated.
Loaded == [snap \in Snapshots |-> LoadDataset(snap)] @@ <<>>

\* The JavaScript heap: object id -> [proto, own].
heap ==
    LET loaded == Loaded[snapshot]
    IN [o \in DOMAIN loaded |-> IF o \in DOMAIN written THEN written[o] ELSE loaded[o]]

\* The objects of h that differ from the loaded dataset.
Store(h) ==
    LET loaded == Loaded[snapshot]
    IN [o \in {x \in DOMAIN h : h[x] # loaded[x]} |-> h[o]]

\* obj[key] = v, for a key that is an own property or inherited from nowhere:
\* the own data property is overwritten or created.
SetOwn(h, o, key, v) ==
    [h EXCEPT ![o].own = [k \in DOMAIN @ \cup {key} |-> IF k = key THEN v ELSE @[k]]]

\* delete obj[key]
DeleteOwn(h, o, key) ==
    [h EXCEPT ![o].own = [k \in DOMAIN @ \ {key} |-> @[k]]]

\* Object.keys(obj): the own property names (all properties of the model's
\* data objects are enumerable).
OwnKeys(h, o) == DOMAIN h[o].own

----------------------------------------------------------------------------
(* Property reads *)

\* hasOwnProperty: own properties only, the prototype chain is not walked.
HasOwnProperty(h, o, key) == key \in DOMAIN h[o].own

\* [[Get]]: the own property if there is one, else the prototype's; a getter
\* found on the way is run on the receiver (Object.prototype.__proto__
\* answers the receiver's prototype).
RECURSIVE Get(_, _, _, _)
Get(h, o, key, receiver) ==
    IF key \in DOMAIN h[o].own
    THEN LET p == h[o].own[key]
         IN IF p.t = "getter"
            THEN (IF h[receiver].proto = "" THEN Null ELSE Ref(h[receiver].proto))
            ELSE p
    ELSE IF h[o].proto = "" THEN Undefined
    ELSE Get(h, h[o].proto, key, receiver)

\* v[key] for a value that is not undefined or null: objects read their
\* property; the primitives of the model have no property of the names read.
GetV(h, v, key) ==
    IF v.t = "object" THEN Get(h, v.s, key, v.s) ELSE Undefined

\* base[key] / base.key: a TypeError when base is undefined or null.
Member(h, base, key) ==
    IF base.t \in {"undefined", "null"} THEN Throw ELSE Return(GetV(h, base, key))

\* base?.key: undefined when base is undefined or null.
OptionalMember(h, base, key) ==
    IF base.t \in {"undefined", "null"} THEN Return(Undefined)
    ELSE Return(GetV(h, base, key))

----------------------------------------------------------------------------
(* The accessors *)

\* dataset.rates
DatasetRates(h) == Member(h, Ref(DatasetObj), "rates")

\* getRate as it would be if it undid the Greece remap of the refresh job:
\* dataset.rates[code === 'GR' ? 'EL' : code]
getRate_UpstreamCode(h, code) ==
    LET rates == DatasetRates(h)
    IN IF rates.status = "throw" THEN rates
       ELSE Member(h, rates.value, IF code = "GR" THEN "EL" ELSE code)

\* return dataset.rates[code as CountryCode]
getRate(h, code) ==
    LET rates == DatasetRates(h)
    IN IF rates.status = "throw" THEN rates ELSE Member(h, rates.value, code)

\* getStandardRate with a numeric fallback:
\* dataset.rates[code]?.standard ?? 0
getStandardRate_Fallback(h, code) ==
    LET rates == DatasetRates(h)
        rec   == Member(h, rates.value, code)
        std   == OptionalMember(h, rec.value, "standard")
    IN IF std.value.t \in {"undefined", "null"} THEN Return(Num(0)) ELSE std

\* getStandardRate without the optional chaining:
\* dataset.rates[code].standard
getStandardRate_NoOptional(h, code) ==
    LET rates == DatasetRates(h)
        rec   == Member(h, rates.value, code)
    IN Member(h, rec.value, "standard")

\* return dataset.rates[code as CountryCode]?.standard
getStandardRate(h, code) ==
    LET rates == DatasetRates(h)
        rec   == IF rates.status = "throw" THEN rates ELSE Member(h, rates.value, code)
    IN IF rec.status = "throw" THEN rec ELSE OptionalMember(h, rec.value, "standard")

\* return dataset.rates
getAllRates(h) == DatasetRates(h)

\* isEUMember with the `in` operator, which walks the prototype chain:
\* code in dataset.rates
isEUMember_In(h, code) ==
    LET rates == DatasetRates(h)
    IN Return(Bool(GetV(h, rates.value, code) # Undefined
                   \/ HasOwnProperty(h, rates.value.s, code)))

\* return Object.prototype.hasOwnProperty.call(dataset.rates, code)
isEUMember(h, code) ==
    LET rates == DatasetRates(h)
    IN IF rates.status = "throw" THEN rates
       ELSE IF rates.value.t \in {"undefined", "null"} THEN Throw
       ELSE Return(Bool(rates.value.t = "object"
                        /\ HasOwnProperty(h, rates.value.s, code)))

\* dataVersion taken from the wrong metadata field: dataset.source
LoadDataVersion_Source(h) == GetV(h, Ref(DatasetObj), "source")

\* export const dataVersion: string = dataset.version
LoadDataVersion(h) == GetV(h, Ref(DatasetObj), "version")

----------------------------------------------------------------------------
(* The consumer's calls *)

NoCall == [op |-> "none", arg |-> "", res |-> Return(Undefined)]

Call(op, arg, res) == [op |-> op, arg |-> arg, res |-> res]

\* The arguments of the calls whose result the consumer keeps.
KeptInputs == { "GR", "DE", "US", "EL", "toString", "__proto__" }

\* The consumer may keep the result of a call for later comparison; it keeps
\* one.
Keep(call) ==
    memo' \in (IF memo = NoCall /\ call.arg \in KeptInputs \cup {""}
               THEN {memo, call} ELSE {memo})

Init ==
    /\ snapshot \in Snapshots
    /\ written = Store(Loaded[snapshot])
    /\ dataVersion = LoadDataVersion(Loaded[snapshot])
    /\ last = NoCall
    /\ memo = NoCall
    /\ writes = 0

\* getRate as it would be if it removed what it returns:
\* const r = dataset.rates[code]; delete dataset.rates[code]; return r
CallGetRate_Consume ==
    \E code \in Inputs :
        /\ last' = Call("getRate", code, getRate(heap, code))
        /\ Keep(last')
        /\ written' = Store(DeleteOwn(heap, RatesObj, code))
        /\ UNCHANGED <<snapshot, dataVersion, writes>>

\* getRate as it would be if it remembered its misses in the table:
\* if (!(code in dataset.rates)) dataset.rates[code] = undefined
CallGetRate_CacheMiss ==
    \E code \in Inputs :
        LET res == getRate(heap, code)
        IN /\ last' = Call("getRate", code, res)
           /\ Keep(last')
           /\ written' = IF res.value = Undefined
                         THEN Store(SetOwn(heap, RatesObj, code, Undefined))
                         ELSE written
           /\ UNCHANGED <<snapshot, dataVersion, writes>>

CallGetRate ==
    \E code \in Inputs :
        /\ last' = Call("getRate", code, getRate(heap, code))
        /\ Keep(last')
        /\ UNCHANGED <<snapshot, written, dataVersion, writes>>

CallGetStandardRate ==
    \E code \in Inputs :
        /\ last' = Call("getStandardRate", code, getStandardRate(heap, code))
        /\ Keep(last')
        /\ UNCHANGED <<snapshot, written, dataVersion, writes>>

CallGetAllRates ==
    /\ last' = Call("getAllRates", "", getAllRates(heap))
    /\ Keep(last')
    /\ UNCHANGED <<snapshot, written, dataVersion, writes>>

CallIsEUMember ==
    \E code \in Inputs :
        /\ last' = Call("isEUMember", code, isEUMember(heap, code))
        /\ Keep(last')
        /\ UNCHANGED <<snapshot, written, dataVersion, writes>>

ReadDataVersion ==
    /\ last' = Call("dataVersion", "", Return(dataVersion))
    /\ Keep(last')
    /\ UNCHANGED <<snapshot, written, dataVersion, writes>>

Next ==
    \/ CallGetRate
    \/ CallGetStandardRate
    \/ CallGetAllRates
    \/ CallIsEUMember
    \/ ReadDataVersion

\* The accessor API under any sequence of calls.
Spec == Init /\ [][Next]_vars

----------------------------------------------------------------------------
(* A consumer that writes through the table getAllRates returned *)

\* The tables the consumer holds: the results of getAllRates it has.
Held ==
    { c.res.value : c \in { x \in {last, memo} :
                               /\ x.op = "getAllRates"
                               /\ x.res.status = "return"
                               /\ x.res.value.t = "object" } }

\* Keys the consumer writes: a covered and an uncovered code (neither is
\* inherited from Object.prototype, so an assignment is a plain own write).
WriteKeys == { "DE", "US" }

\* all[key] = all.FR, or all[key] = undefined
CallerAssign ==
    \E all \in Held, key \in WriteKeys :
      \E v \in {Undefined, GetV(heap, all, "FR")} :
        /\ writes < MaxWrites
        /\ written' = Store(SetOwn(heap, all.s, key, v))
        /\ writes' = writes + 1
        /\ UNCHANGED <<snapshot, dataVersion, last, memo>>

\* delete all[key]
CallerDelete ==
    \E all \in Held, key \in WriteKeys :
        /\ writes < MaxWrites
        /\ written' = Store(DeleteOwn(heap, all.s, key))
        /\ writes' = writes + 1
        /\ UNCHANGED <<snapshot, dataVersion, last, memo>>

\* all[key].standard = n, for a key that holds a record
CallerAssignField ==
    \E all \in Held, key \in WriteKeys, n \in StdRates :
        LET rec == GetV(heap, all, key)
        IN /\ writes < MaxWrites
           /\ rec.t = "object"
           /\ written' = Store(SetOwn(heap, rec.s, "standard", Num(n)))
           /\ writes' = writes + 1
           /\ UNCHANGED <<snapshot, dataVersion, last, memo>>

NextCaller ==
    \/ Next
    \/ CallerAssign
    \/ CallerDelete
    \/ CallerAssignField

\* The accessor API with a consumer that also writes to what it was handed.
SpecCaller == Init /\ [][NextCaller]_vars

----------------------------------------------------------------------------
(* Properties *)

\* The number of covered countries: EU-27 plus the United Kingdom.
NumCountries == 28

\* A call returned something other than undefined.
Present(res) == res.status = "return" /\ res.value # Undefined

\* The kept call and the latest call are calls of opA and opB on one input.
Paired(opA, opB) == memo.op = opA /\ last.op = opB /\ memo.arg = last.arg

\* Every object of the heap is as it was loaded.
DatasetUnchanged == \A o \in DOMAIN heap : heap[o] = Loaded[snapshot][o]

\* C1: for every input, isEUMember(code) is true if and only if
\* getRate(code) returns something other than undefined.
C1_MemberIffRatePresent ==
    /\ Paired("isEUMember", "getRate") =>
          ((memo.res = Return(Bool(TRUE))) <=> Present(last.res))
    /\ Paired("getRate", "isEUMember") =>
          ((last.res = Return(Bool(TRUE))) <=> Present(memo.res))

\* C2: for every string outside the 28 codes, getRate returns undefined and
\* isEUMember returns false.
C2_UncoveredIsAbsent ==
    last.arg \notin CountryCode =>
        /\ last.op = "getRate" => last.res = Return(Undefined)
        /\ last.op = "isEUMember" => last.res = Return(Bool(FALSE))

\* C3: for every input, getStandardRate(code) is getRate(code)?.standard:
\* undefined when that is undefined, and the standard field of the record
\* getRate returned otherwise.
C3_StandardRateAgreesWithRate ==
    /\ Paired("getRate", "getStandardRate") =>
          last.res = OptionalMember(heap, memo.res.value, "standard")
    /\ Paired("getStandardRate", "getRate") =>
          memo.res = OptionalMember(heap, last.res.value, "standard")

C3_Witness ==
    /\ Paired("getRate", "getStandardRate")
    /\ last.arg = "GR"
    /\ last.res = Return(Num(snapshot.standard))

\* C4: for each of the 28 codes, getRate returns a record whose country is
\* a non-empty string and getStandardRate returns a number.
C4_TotalOverCountryCode ==
    last.arg \in CountryCode =>
        /\ last.op = "getRate" =>
              /\ last.res.status = "return"
              /\ last.res.value.t = "object"
              /\ LET country == GetV(heap, last.res.value, "country")
                 IN country.t = "string" /\ country.s # ""
        /\ last.op = "getStandardRate" =>
              /\ last.res.status = "return"
              /\ last.res.value.t = "number"

C4_Witness ==
    /\ last.op = "getRate"
    /\ last.arg = "GR"
    /\ last.res = Return(Ref(RecObj("GR")))
    /\ memo.op = "getStandardRate"
    /\ memo.arg = "GR"
    /\ memo.res.value.t = "number"

\* C5: the keys of the table getAllRates returns are exactly the inputs for
\* which isEUMember is true, exactly the 28 codes, and 28 in number.
C5_AllRatesKeysAreTheMembers ==
    last.op = "getAllRates" =>
        /\ last.res.status = "return"
        /\ last.res.value.t = "object"
        /\ LET keys == OwnKeys(heap, last.res.value.s)
           IN /\ keys = {c \in Inputs : isEUMember(heap, c) = Return(Bool(TRUE))}
              /\ keys = CountryCode
              /\ Cardinality(keys) = NumCountries

C5_Witness ==
    /\ last.op = "getAllRates"
    /\ last.res = Return(Ref(RatesObj))
    /\ Cardinality(OwnKeys(heap, RatesObj)) = NumCountries
    /\ memo.op = "isEUMember"
    /\ memo.arg = "toString"
    /\ memo.res = Return(Bool(FALSE))

\* C6: after a consumer wrote through the table getAllRates returned, the
\* dataset is unchanged and the accessors answer as they did before.
C6_CallerCannotCorrupt ==
    writes > 0 =>
        /\ DatasetUnchanged
        /\ (memo.op = last.op /\ memo.arg = last.arg) => memo.res = last.res

\* C7: dataVersion equals dataset.version in every reachable state, and
\* reading it gives that value.
C7_DataVersionIsDatasetVersion ==
    /\ dataVersion = GetV(heap, Ref(DatasetObj), "version")
    /\ last.op = "dataVersion" =>
          last.res = Return(GetV(heap, Ref(DatasetObj), "version"))

C7_Witness ==
    /\ last.op = "dataVersion"
    /\ last.res = Return(Str(snapshot.version))
    /\ memo.op = "getAllRates"

\* C8: no sequence of accessor calls changes the dataset: version, source,
\* url, the rates table and every record are as they were loaded.
C8_AccessorsWriteNothing == DatasetUnchanged

C8_Witness ==
    /\ memo.op = "getRate"
    /\ memo.arg = "US"
    /\ last.op = "getAllRates"
    /\ written = Store(Loaded[snapshot])

\* C9: no accessor call throws, whatever the input; isEUMember returns a
\* boolean, getStandardRate a number or undefined.
C9_NeverThrows ==
    /\ last.res.status = "return"
    /\ last.op = "isEUMember" => last.res.value.t = "boolean"
    /\ last.op = "getStandardRate" => last.res.value.t \in {"number", "undefined"}

C9_Witness ==
    /\ last.op = "getStandardRate"
    /\ last.arg = "US"
    /\ last.res = Return(Undefined)
    /\ memo.op = "getRate"
    /\ memo.arg = "__proto__"
    /\ memo.res = Return(Ref(ObjectProto))

\* C10: a call repeated later, after any calls in between, returns what the
\* same call returned before.
C10_SameCallSameResult ==
    (memo.op = last.op /\ memo.arg = last.arg) => memo.res = last.res

C10_Witness ==
    /\ memo.op = "getRate"
    /\ last.op = "getRate"
    /\ memo.arg = "GR"
    /\ last.arg = "GR"
    /\ last.res = Return(Ref(RecObj("GR")))

====
